---- MODULE Spec2Model ----
(***************************************************************************)
(* Model of the NSFWTagger Stash plugin's batch orchestration:             *)
(*   - BatchProcessor (src/ui/BatchProcessor.jsx): the React component     *)
(*     that loads items, keeps the selection, starts a run, dispatches the *)
(*     selected items in batches, aggregates outcomes and cancels;         *)
(*   - NSFWTaggerClient.retryRequest / ErrorHandler.retryOperation: the    *)
(*     retry loops, and processScene / processImage, the operations the    *)
(*     batch processor passes to them;                                     *)
(*   - StashClient.createTagIfNotExists / createSceneMarker and            *)
(*     BatchProcessor.applyResultsToStash: the catalog writes.             *)
(*                                                                         *)
(* JavaScript runs one task at a time: every action below is one task, the *)
(* code of a handler or of an async function between two awaits.           *)
(***************************************************************************)
EXTENDS Integers, Sequences, FiniteSets, TLC

VARIABLES
    \* ---- BatchProcessor: this.state and instance fields
    mounted,            \* componentDidMount has run
    items,              \* state.items (ids, in display order)
    selectedItems,      \* state.selectedItems
    allSelected,        \* state.allSelected
    processing,         \* state.processing
    progress,           \* state.progress: total, completed, failed, status
    results,            \* state.results (ids of the successful entries)
    errors,             \* state.errors (ids of the failed entries)
    loading,            \* state.loading
    processingInterval, \* this.processingInterval (0 is null)
    intervals,          \* the intervals setInterval has scheduled and nobody cleared
    concurrency,        \* props.settings.concurrency
    \* ---- BatchProcessor: calls in progress
    runs,               \* the startProcessing calls, in call order
    loads,              \* loadItems calls awaiting the catalog
    cancels,            \* cancelProcessing calls awaiting the container
    reqCount,           \* per item id, the /process requests issued so far
    \* ---- history of cancelProcessing invocations
    cancelledRuns,      \* runs that were in their processItems loop when cancel was invoked
    inFlightAtCancel,   \* per run, the ids in flight when cancel was invoked
    \* ---- retry policy (retryRequest / retryOperation)
    retry,
    \* ---- catalog and result applier
    catalog,
    appliers,
    \* ---- ErrorHandler: the error being classified and the answer
    judged,
    \* ---- BatchProcessor: state.mode / state.type and the loadItems calls by filter
    query,
    \* ---- Dashboard: state.status and the loadStatus calls
    dashboard,
    \* ---- ErrorHandler: the handleValidationError call and its stack
    validation

uiVars == <<mounted, items, selectedItems, allSelected, processing, progress,
            results, errors, loading, processingInterval, intervals, concurrency,
            runs, loads, cancels, reqCount, cancelledRuns, inFlightAtCancel>>
viewVars == <<query, dashboard, validation>>
partVars == <<retry, catalog, appliers, judged, viewVars>>
vars == <<uiVars, partVars>>

----------------------------------------------------------------------------
\* Bounds of the model
MaxItems == 2          \* item ids the catalog can list
MaxConcurrency == 2    \* largest props.settings.concurrency explored
MaxRuns == 2           \* startProcessing calls explored
MaxLoads == 1          \* loadItems calls in flight at once
MaxCancels == 1        \* cancelProcessing calls in flight at once

ItemIds == 1..MaxItems
RunIds == 1..MaxRuns

Min(a, b) == IF a <= b THEN a ELSE b

Range(s) == {s[k] : k \in DOMAIN s}

\* Array.prototype.filter
RECURSIVE SelectSeq2(_, _)
SelectSeq2(s, keep) ==
    IF s = <<>> THEN <<>>
    ELSE IF Head(s) \in keep THEN <<Head(s)>> \o SelectSeq2(Tail(s), keep)
         ELSE SelectSeq2(Tail(s), keep)

\* What a catalog query can return for the current filter: the first k items of
\* the catalog's order (per_page = limit), k depending on the filter.
Listings == {[k \in 1..n |-> k] : n \in 0..MaxItems}

\* the parts that a specification does not exercise
ViewsOff ==
    /\ query = [pc |-> "off"]
    /\ dashboard = [pc |-> "off"]
    /\ validation = [pc |-> "off"]

----------------------------------------------------------------------------
\* BatchProcessor.constructor
InitProgress == [total |-> 0, completed |-> 0, failed |-> 0, status |-> "idle"]

InitUI ==
    /\ mounted = FALSE
    /\ items = <<>>
    /\ selectedItems = <<>>
    /\ allSelected = FALSE
    /\ processing = FALSE
    /\ progress = InitProgress
    /\ results = <<>>
    /\ errors = <<>>
    /\ loading = FALSE
    /\ processingInterval = 0
    /\ intervals = {}
    /\ runs = <<>>
    /\ loads = 0
    /\ cancels = 0
    /\ reqCount = [i \in ItemIds |-> 0]
    /\ cancelledRuns = {}
    /\ inFlightAtCancel = [r \in RunIds |-> {}]

----------------------------------------------------------------------------
\* loadItems, up to its await of the catalog query
LoadItemsCall ==
    /\ loads < MaxLoads
    /\ loading' = TRUE
    /\ loads' = loads + 1

\* componentDidMount: initializeClients, then loadItems
ComponentDidMount ==
    /\ ~mounted
    /\ mounted' = TRUE
    /\ LoadItemsCall
    /\ UNCHANGED <<items, selectedItems, allSelected, processing, progress, results,
                   errors, processingInterval, intervals, concurrency, runs, cancels,
                   reqCount, cancelledRuns, inFlightAtCancel>>
    /\ UNCHANGED partVars

\* The Refresh button and handleLimitChange / handleDaysChange: loadItems with
\* the selection kept
Refresh ==
    /\ mounted
    /\ LoadItemsCall
    /\ UNCHANGED <<mounted, items, selectedItems, allSelected, processing, progress,
                   results, errors, processingInterval, intervals, concurrency, runs,
                   cancels, reqCount, cancelledRuns, inFlightAtCancel>>
    /\ UNCHANGED partVars

\* handleModeChange / handleTypeChange: the selection is cleared, then loadItems
HandleModeChange ==
    /\ mounted
    /\ selectedItems' = <<>>
    /\ allSelected' = FALSE
    /\ LoadItemsCall
    /\ UNCHANGED <<mounted, items, processing, progress, results, errors,
                   processingInterval, intervals, concurrency, runs, cancels,
                   reqCount, cancelledRuns, inFlightAtCancel>>
    /\ UNCHANGED partVars

\* loadItems after its await: the query returned `list`
LoadItemsReturn(list) ==
    /\ loads > 0
    /\ loads' = loads - 1
    /\ items' = list
    /\ loading' = FALSE
    /\ progress' = [progress EXCEPT !.total = Len(list)]
    /\ UNCHANGED <<mounted, selectedItems, allSelected, processing, results, errors,
                   processingInterval, intervals, concurrency, runs, cancels,
                   reqCount, cancelledRuns, inFlightAtCancel>>
    /\ UNCHANGED partVars

\* loadItems after its await: the query threw
LoadItemsFail ==
    /\ loads > 0
    /\ loads' = loads - 1
    /\ loading' = FALSE
    /\ UNCHANGED <<mounted, items, selectedItems, allSelected, processing, progress,
                   results, errors, processingInterval, intervals, concurrency, runs,
                   cancels, reqCount, cancelledRuns, inFlightAtCancel>>
    /\ UNCHANGED partVars

\* handleSelectItem: the checkbox of a displayed item
HandleSelectItem(itemId) ==
    /\ ~loading
    /\ itemId \in Range(items)
    /\ LET newSelected ==
               IF itemId \in Range(selectedItems)
               THEN SelectSeq2(selectedItems, Range(selectedItems) \ {itemId})
               ELSE Append(selectedItems, itemId)
       IN /\ selectedItems' = newSelected
          /\ allSelected' = (Len(newSelected) = Len(items))
    /\ UNCHANGED <<mounted, items, processing, progress, results, errors, loading,
                   processingInterval, intervals, concurrency, runs, loads, cancels,
                   reqCount, cancelledRuns, inFlightAtCancel>>
    /\ UNCHANGED partVars

\* handleSelectAll: the Select All checkbox
HandleSelectAll ==
    /\ mounted
    /\ ~loading
    /\ selectedItems' = IF allSelected THEN <<>> ELSE items
    /\ allSelected' = ~allSelected
    /\ UNCHANGED <<mounted, items, processing, progress, results, errors, loading,
                   processingInterval, intervals, concurrency, runs, loads, cancels,
                   reqCount, cancelledRuns, inFlightAtCancel>>
    /\ UNCHANGED partVars

----------------------------------------------------------------------------
\* createBatches(items, batchSize): consecutive slices of batchSize items
\* (MutCreateBatches: slice(i, i + batchSize + 1), one item too many per slice)
MutCreateBatches(list, batchSize) ==
    [b \in 1..((Len(list) + batchSize - 1) \div batchSize) |->
        SubSeq(list, (b - 1) * batchSize + 1, Min(b * batchSize + 1, Len(list)))]
createBatches(list, batchSize) ==
    [b \in 1..((Len(list) + batchSize - 1) \div batchSize) |->
        SubSeq(list, (b - 1) * batchSize + 1, Min(b * batchSize, Len(list)))]

\* processItems wraps each processItem promise in .catch: a rejection becomes
\* the fulfilled value {id, success: false, error}
\* (MutItemPromise: the promise without its .catch)
MutItemPromise(outcome) == outcome
ItemPromise(outcome) == IF outcome = "rejected" THEN "failed" ELSE outcome

Settled == {"ok", "failed", "rejected"}
InFlight == {"remote", "apply"}

\* one startProcessing call
NewRun(sel) == [pc |-> "validating", sel |-> sel, batches |-> <<>>, bi |-> 0, st |-> <<>>]

\* batch.map(itemId => this.processItem(...)): every processItem of the batch
\* runs to its first await, the /process request of its item
IssueBatch(batch) ==
    [i \in DOMAIN reqCount |-> IF i \in Range(batch) THEN reqCount[i] + 1 ELSE reqCount[i]]

\* startProgressTracking: setInterval, the handle stored over the previous one
StartProgressTracking(r) ==
    /\ processingInterval' = r
    /\ intervals' = intervals \cup {r}

\* stopProgressTracking: clearInterval of the stored handle
StopProgressTracking ==
    /\ processingInterval' = 0
    /\ intervals' = intervals \ {processingInterval}

\* startProcessing up to its await of validateConnection. The Start button is
\* disabled while state.processing or when nothing is selected.
StartProcessing ==
    /\ mounted
    /\ ~(processing \/ Len(selectedItems) = 0)
    /\ Len(runs) < MaxRuns
    /\ IF Len(selectedItems) = 0
       THEN UNCHANGED runs
       ELSE runs' = Append(runs, NewRun(selectedItems))
    /\ UNCHANGED <<mounted, items, selectedItems, allSelected, processing, progress,
                   results, errors, loading, processingInterval, intervals,
                   concurrency, loads, cancels, reqCount, cancelledRuns,
                   inFlightAtCancel>>
    /\ UNCHANGED partVars

\* (MutValidationFails: the setState that resets the run state moved before
\* the validation test)
MutValidationFails(r) ==
    /\ r \in DOMAIN runs
    /\ runs[r].pc = "validating"
    /\ runs' = [runs EXCEPT ![r].pc = "invalid"]
    /\ progress' = [total |-> Len(runs[r].sel), completed |-> 0, failed |-> 0,
                    status |-> "processing"]
    /\ results' = <<>>
    /\ errors' = <<>>
    /\ UNCHANGED <<mounted, items, selectedItems, allSelected, processing,
                   loading, processingInterval, intervals,
                   concurrency, loads, cancels, reqCount, cancelledRuns,
                   inFlightAtCancel>>
    /\ UNCHANGED partVars

\* startProcessing: validateConnection returned {valid: false}
ValidationFails(r) ==
    /\ r \in DOMAIN runs
    /\ runs[r].pc = "validating"
    /\ runs' = [runs EXCEPT ![r].pc = "invalid"]
    /\ UNCHANGED <<mounted, items, selectedItems, allSelected, processing, progress,
                   results, errors, loading, processingInterval, intervals,
                   concurrency, loads, cancels, reqCount, cancelledRuns,
                   inFlightAtCancel>>
    /\ UNCHANGED partVars

\* startProcessing: validateConnection returned {valid: true}; the state is
\* reset, the timer started, and processItems issues its first batch
ValidationPasses(r) ==
    /\ r \in DOMAIN runs
    /\ runs[r].pc = "validating"
    /\ processing' = TRUE
    /\ progress' = [total |-> Len(runs[r].sel), completed |-> 0, failed |-> 0,
                    status |-> "processing"]
    /\ results' = <<>>
    /\ errors' = <<>>
    /\ StartProgressTracking(r)
    /\ LET batches == createBatches(runs[r].sel, concurrency)
       IN /\ runs' = [runs EXCEPT ![r] = [pc |-> "running", sel |-> runs[r].sel,
                         batches |-> batches, bi |-> 1,
                         st |-> [k \in 1..Len(batches[1]) |-> "remote"]]]
          /\ reqCount' = IssueBatch(batches[1])
    /\ UNCHANGED <<mounted, items, selectedItems, allSelected, loading, concurrency,
                   loads, cancels, cancelledRuns, inFlightAtCancel>>
    /\ UNCHANGED partVars

\* processItem: processSceneWithRetry / processImageWithRetry returned.
\* processScene never throws (it returns {success: false} from its catch), so
\* retryRequest returns its first result; processItem throws when
\* result.success is false and goes on to applyResultsToStash otherwise.
RemoteReturns(r, k, success) ==
    /\ r \in DOMAIN runs
    /\ runs[r].pc = "running"
    /\ k \in DOMAIN runs[r].st
    /\ runs[r].st[k] = "remote"
    /\ runs' = [runs EXCEPT ![r].st[k] =
                   IF success THEN "apply" ELSE ItemPromise("rejected")]
    /\ UNCHANGED <<mounted, items, selectedItems, allSelected, processing, progress,
                   results, errors, loading, processingInterval, intervals,
                   concurrency, loads, cancels, reqCount, cancelledRuns,
                   inFlightAtCancel>>
    /\ UNCHANGED partVars

\* processItem: applyResultsToStash returned (applied) or threw
ApplyReturns(r, k, applied) ==
    /\ r \in DOMAIN runs
    /\ runs[r].pc = "running"
    /\ k \in DOMAIN runs[r].st
    /\ runs[r].st[k] = "apply"
    /\ runs' = [runs EXCEPT ![r].st[k] =
                   IF applied THEN ItemPromise("ok") ELSE ItemPromise("rejected")]
    /\ UNCHANGED <<mounted, items, selectedItems, allSelected, processing, progress,
                   results, errors, loading, processingInterval, intervals,
                   concurrency, loads, cancels, reqCount, cancelledRuns,
                   inFlightAtCancel>>
    /\ UNCHANGED partVars

\* the ids of the batch whose promise settled as `how`, in batch order
BatchIds(run, how) ==
    LET batch == run.batches[run.bi]
    IN SelectSeq2(batch, {batch[k] : k \in {j \in DOMAIN batch : run.st[j] = how}})

\* processItems after `await Promise.all(promises)`: the batch's outcomes are
\* added to the state; then the next batch is issued, or processItems returns
\* and startProcessing stops the timer and clears state.processing.
\* Promise.all rejects as soon as one promise rejects.
BatchSettles(r) ==
    /\ r \in DOMAIN runs
    /\ runs[r].pc = "running"
    /\ LET run == runs[r]
           successful == BatchIds(run, "ok")
           failed == BatchIds(run, "failed")
       IN IF \E k \in DOMAIN run.st : run.st[k] = "rejected"
          THEN /\ runs' = [runs EXCEPT ![r].pc = "aborted"]
               /\ UNCHANGED <<results, errors, progress, reqCount, processing,
                              processingInterval, intervals>>
          ELSE /\ \A k \in DOMAIN run.st : run.st[k] \in Settled
               /\ results' = results \o successful
               /\ errors' = errors \o failed
               /\ progress' = [progress EXCEPT
                                 !.completed = @ + Len(successful),
                                 !.failed = @ + Len(failed)]
               /\ IF run.bi < Len(run.batches)
                  THEN /\ runs' = [runs EXCEPT ![r].bi = run.bi + 1,
                                     ![r].st = [k \in 1..Len(run.batches[run.bi + 1]) |-> "remote"]]
                       /\ reqCount' = IssueBatch(run.batches[run.bi + 1])
                       /\ UNCHANGED <<processing, processingInterval, intervals>>
                  ELSE /\ runs' = [runs EXCEPT ![r].pc = "done"]
                       /\ StopProgressTracking
                       /\ processing' = FALSE
                       /\ UNCHANGED reqCount
    /\ UNCHANGED <<mounted, items, selectedItems, allSelected, loading, concurrency,
                   loads, cancels, cancelledRuns, inFlightAtCancel>>
    /\ UNCHANGED partVars

\* the ids of run r whose pipeline is in flight
InFlightIds(r) ==
    IF runs[r].pc = "running"
    THEN {runs[r].batches[runs[r].bi][k] : k \in {j \in DOMAIN runs[r].st : runs[r].st[j] \in InFlight}}
    ELSE {}

\* cancelProcessing up to its await of nsfwClient.cancelProcessing. The Cancel
\* button is rendered while state.processing.
CancelProcessing ==
    /\ processing
    /\ cancels < MaxCancels
    /\ cancels' = cancels + 1
    /\ cancelledRuns' = cancelledRuns \cup {r \in DOMAIN runs : runs[r].pc = "running"}
    /\ inFlightAtCancel' = [r \in RunIds |->
                               IF r \in DOMAIN runs
                               THEN inFlightAtCancel[r] \cup InFlightIds(r)
                               ELSE inFlightAtCancel[r]]
    /\ UNCHANGED <<mounted, items, selectedItems, allSelected, processing, progress,
                   results, errors, loading, processingInterval, intervals,
                   concurrency, runs, loads, reqCount>>
    /\ UNCHANGED partVars

\* cancelProcessing after its await. NSFWTaggerClient.cancelProcessing catches
\* every error and returns {success: false}, so the catch branch of
\* BatchProcessor.cancelProcessing is never taken, whatever the container said.
CancelReturns(accepted) ==
    /\ cancels > 0
    /\ cancels' = cancels - 1
    /\ processing' = FALSE
    /\ progress' = [total |-> 0, completed |-> 0, failed |-> 0, status |-> "cancelled"]
    /\ StopProgressTracking
    /\ UNCHANGED <<mounted, items, selectedItems, allSelected, results, errors,
                   loading, concurrency, runs, loads, reqCount, cancelledRuns,
                   inFlightAtCancel>>
    /\ UNCHANGED partVars

\* The component from its construction to a loaded list and a selection
SelectNext ==
    \/ ComponentDidMount
    \/ Refresh
    \/ HandleModeChange
    \/ \E list \in Listings : LoadItemsReturn(list)
    \/ LoadItemsFail
    \/ \E i \in ItemIds : HandleSelectItem(i)
    \/ HandleSelectAll

InitSelect ==
    /\ InitUI
    /\ concurrency \in 1..MaxConcurrency
    /\ retry = [pc |-> "off"]
    /\ judged = [pc |-> "off"]
    /\ ViewsOff
    /\ catalog = <<>>
    /\ appliers = <<>>

SpecSelect == InitSelect /\ [][SelectNext]_vars

\* The loaded and selected states of the component in which Start is enabled:
\* what mount, loadItems and the selection handlers lead to before any run.
\* items is a listing, selectedItems holds distinct displayed ids.
Selections(list) ==
    {sel \in UNION {[1..n -> Range(list)] : n \in 1..Len(list)} :
        \A a, b \in DOMAIN sel : a # b => sel[a] # sel[b]}

InitLoaded ==
    /\ mounted = TRUE
    /\ items \in Listings \ {<<>>}
    /\ selectedItems \in Selections(items)
    /\ allSelected = (Len(selectedItems) = Len(items))
    /\ processing = FALSE
    /\ progress = [InitProgress EXCEPT !.total = Len(items)]
    /\ results = <<>>
    /\ errors = <<>>
    /\ loading = FALSE
    /\ processingInterval = 0
    /\ intervals = {}
    /\ concurrency \in 1..MaxConcurrency
    /\ runs = <<>>
    /\ loads = 0
    /\ cancels = 0
    /\ reqCount = [i \in ItemIds |-> 0]
    /\ cancelledRuns = {}
    /\ inFlightAtCancel = [r \in RunIds |-> {}]

Init ==
    /\ InitLoaded
    /\ retry = [pc |-> "off"]
    /\ judged = [pc |-> "off"]
    /\ ViewsOff
    /\ catalog = <<>>
    /\ appliers = <<>>

\* A run of the batch processor: start, validation, the items' pipelines, the
\* batches, cancel, and reloads of the item list while all this goes on.
RunNext ==
    \/ Refresh
    \/ \E list \in Listings : LoadItemsReturn(list)
    \/ LoadItemsFail
    \/ StartProcessing
    \/ \E r \in RunIds : ValidationFails(r)
    \/ \E r \in RunIds : ValidationPasses(r)
    \/ \E r \in RunIds, k \in 1..MaxConcurrency, success \in BOOLEAN : RemoteReturns(r, k, success)
    \/ \E r \in RunIds, k \in 1..MaxConcurrency, applied \in BOOLEAN : ApplyReturns(r, k, applied)
    \/ \E r \in RunIds : BatchSettles(r)
    \/ CancelProcessing
    \/ \E accepted \in BOOLEAN : CancelReturns(accepted)

Spec == Init /\ [][RunNext]_vars

\* One run on its own, over a longer list: a single Start click, the run's
\* validation, its items' pipelines and batches, and cancel.
MaxDispatchItems == 3

DispatchListings == {[k \in 1..n |-> k] : n \in 1..MaxDispatchItems}

InitDispatch ==
    /\ mounted = TRUE
    /\ items \in DispatchListings
    /\ selectedItems \in Selections(items)
    /\ allSelected = (Len(selectedItems) = Len(items))
    /\ processing = FALSE
    /\ progress = [InitProgress EXCEPT !.total = Len(items)]
    /\ results = <<>>
    /\ errors = <<>>
    /\ loading = FALSE
    /\ processingInterval = 0
    /\ intervals = {}
    /\ concurrency \in 1..MaxConcurrency
    /\ runs = <<>>
    /\ loads = 0
    /\ cancels = 0
    /\ reqCount = [i \in 1..MaxDispatchItems |-> 0]
    /\ cancelledRuns = {}
    /\ inFlightAtCancel = [r \in RunIds |-> {}]
    /\ retry = [pc |-> "off"]
    /\ judged = [pc |-> "off"]
    /\ ViewsOff
    /\ catalog = <<>>
    /\ appliers = <<>>

\* the first click on Start
StartOnce == runs = <<>> /\ StartProcessing

DispatchNext ==
    \/ StartOnce
    \/ \E r \in RunIds : ValidationFails(r)
    \/ \E r \in RunIds : ValidationPasses(r)
    \/ \E r \in RunIds, k \in 1..MaxConcurrency, success \in BOOLEAN : RemoteReturns(r, k, success)
    \/ \E r \in RunIds, k \in 1..MaxConcurrency, applied \in BOOLEAN : ApplyReturns(r, k, applied)
    \/ \E r \in RunIds : BatchSettles(r)
    \/ CancelProcessing
    \/ \E accepted \in BOOLEAN : CancelReturns(accepted)

SpecDispatch == InitDispatch /\ [][DispatchNext]_vars

\* One run with a container that fails every cancel request (unreachable,
\* timing out or answering non-2xx): NSFWTaggerClient.cancelProcessing returns
\* {success: false} each time
RefusedNext ==
    \/ StartOnce
    \/ \E r \in RunIds : ValidationFails(r)
    \/ \E r \in RunIds : ValidationPasses(r)
    \/ \E r \in RunIds, k \in 1..MaxConcurrency, success \in BOOLEAN : RemoteReturns(r, k, success)
    \/ \E r \in RunIds, k \in 1..MaxConcurrency, applied \in BOOLEAN : ApplyReturns(r, k, applied)
    \/ \E r \in RunIds : BatchSettles(r)
    \/ CancelProcessing
    \/ CancelReturns(FALSE)

SpecCancelRefused == InitDispatch /\ [][RefusedNext]_vars

----------------------------------------------------------------------------
\* The item list under changes of state.mode and state.type: every
\* handleModeChange / handleTypeChange starts a loadItems call, which reads
\* state.mode and state.type when it is called and writes state.items when its
\* query returns.
MaxPendingLoads == 2   \* loadItems calls awaiting the catalog at once

Filters == {"untagged", "recent"} \X {"scenes", "images"}
DefaultFilter == <<"untagged", "scenes">>

RemoveAt(s, k) == SubSeq(s, 1, k - 1) \o SubSeq(s, k + 1, Len(s))

\* handleModeChange(mode) / handleTypeChange(type): the new mode or type is
\* set, the selection cleared, and loadItems called for the filter f
HandleFilterChange(f) ==
    /\ mounted
    /\ Len(query.pending) < MaxPendingLoads
    /\ (f[1] # query.filter[1]) # (f[2] # query.filter[2])
    /\ query' = [query EXCEPT !.filter = f, !.pending = Append(@, f)]
    /\ selectedItems' = <<>>
    /\ allSelected' = FALSE
    /\ loading' = TRUE
    /\ loads' = loads + 1
    /\ UNCHANGED <<mounted, items, processing, progress, results, errors,
                   processingInterval, intervals, concurrency, runs, cancels,
                   reqCount, cancelledRuns, inFlightAtCancel>>
    /\ UNCHANGED <<retry, catalog, appliers, judged, dashboard, validation>>

\* loadItems after its await: the query of pending call k returned `list`;
\* shown is the filter the displayed list was queried with
LoadItemsReturnFor(k, list) ==
    /\ k \in DOMAIN query.pending
    /\ query' = [query EXCEPT !.pending = RemoveAt(@, k), !.shown = query.pending[k]]
    /\ loads' = loads - 1
    /\ items' = list
    /\ loading' = FALSE
    /\ progress' = [progress EXCEPT !.total = Len(list)]
    /\ UNCHANGED <<mounted, selectedItems, allSelected, processing, results, errors,
                   processingInterval, intervals, concurrency, runs, cancels,
                   reqCount, cancelledRuns, inFlightAtCancel>>
    /\ UNCHANGED <<retry, catalog, appliers, judged, dashboard, validation>>

LoadNext ==
    \/ \E f \in Filters : HandleFilterChange(f)
    \/ \E k \in 1..MaxPendingLoads, list \in Listings : LoadItemsReturnFor(k, list)

\* the component mounted, its first list loaded with the default filter
InitLoad ==
    /\ mounted = TRUE
    /\ items \in Listings
    /\ selectedItems = <<>>
    /\ allSelected = FALSE
    /\ processing = FALSE
    /\ progress = [InitProgress EXCEPT !.total = Len(items)]
    /\ results = <<>>
    /\ errors = <<>>
    /\ loading = FALSE
    /\ processingInterval = 0
    /\ intervals = {}
    /\ concurrency = 1
    /\ runs = <<>>
    /\ loads = 0
    /\ cancels = 0
    /\ reqCount = [i \in ItemIds |-> 0]
    /\ cancelledRuns = {}
    /\ inFlightAtCancel = [r \in RunIds |-> {}]
    /\ retry = [pc |-> "off"]
    /\ catalog = <<>>
    /\ appliers = <<>>
    /\ judged = [pc |-> "off"]
    /\ query = [pc |-> "on", filter |-> DefaultFilter, pending |-> <<>>,
                shown |-> DefaultFilter]
    /\ dashboard = [pc |-> "off"]
    /\ validation = [pc |-> "off"]

SpecLoad == InitLoad /\ [][LoadNext]_vars

----------------------------------------------------------------------------
\* The retry loops: NSFWTaggerClient.retryRequest and ErrorHandler.retryOperation
\* (the same code), called with an operation that is either processScene /
\* processImage or an operation that lets its errors through, such as request.

MaxAttemptsBound == 3   \* largest maxRetries explored
DefaultMaxRetries == 3  \* maxRetries = 3 of processSceneWithRetry and retryRequest
DefaultBaseDelay == 1000
JitterSpan == 1000      \* Math.random() * 1000
DefaultMaxDelay == 30000 \* maxDelay = 30000 of getRetryDelay

\* What one HTTP exchange of NSFWTaggerClient.request ends in: a 2xx response,
\* a non-2xx status, the abort timer firing, or fetch failing
Responses == {"200", "500", "429", "404", "400", "timeout", "network"}

\* The codes ErrorHandler.shouldRetry lists as non-retryable, among Responses
NonRetryable == {"400", "401", "403", "404"}

\* request: resolves for a 2xx response and throws for everything else
RequestOutcome(response) == IF response = "200" THEN "fulfilled" ELSE "rejected"

\* processScene / processImage: request in a try/catch whose catch returns
\* {success: false, error}; the returned promise is never rejected
ProcessOutcome(response) == "fulfilled"

\* the promise of requestFn() / operation()
OpOutcome(wrapped, response) ==
    IF wrapped THEN ProcessOutcome(response) ELSE RequestOutcome(response)

\* One iteration of the loop after the awaited promise settled: return the
\* value, throw on the last attempt, or back off
\* (MutAfterAttempt: the loop body without `return` before `await requestFn()`,
\* the value being returned only from the last attempt)
MutAfterAttempt(outcome, attempt, maxRetries) ==
    IF attempt = maxRetries
    THEN (IF outcome = "fulfilled" THEN "returned" ELSE "thrown")
    ELSE "sleep"
AfterAttempt(outcome, attempt, maxRetries) ==
    IF outcome = "fulfilled" THEN "returned"
    ELSE IF attempt = maxRetries THEN "thrown"
    ELSE "sleep"

RECURSIVE Pow2(_)
Pow2(n) == IF n = 0 THEN 1 ELSE 2 * Pow2(n - 1)

\* baseDelay * Math.pow(2, attempt - 1) + Math.random() * 1000
BackoffDelay(baseDelay, attempt, jitter) == baseDelay * Pow2(attempt - 1) + jitter

\* the values of Math.random() * 1000 explored: both ends of [0, 1000)
Jitters == {0, JitterSpan - 1}

RetryIdle == [pc |-> "idle", policy |-> "retryRequest", wrapped |-> FALSE,
              maxRetries |-> DefaultMaxRetries, baseDelay |-> DefaultBaseDelay,
              attempt |-> 0, attempts |-> <<>>, outstanding |-> 0, sleeps |-> <<>>]

\* the baseDelay arguments explored: the default, and one whose second
\* backoff exceeds getRetryDelay's maxDelay
BaseDelays == {DefaultBaseDelay, 20 * DefaultBaseDelay}

\* retryRequest(requestFn, maxRetries, baseDelay) /
\* retryOperation(operation, maxRetries, baseDelay): attempt 1 invokes the
\* operation
RetryCall(policy, wrapped, maxRetries, baseDelay) ==
    /\ retry.pc = "idle"
    /\ retry' = [retry EXCEPT !.pc = IF 1 <= maxRetries THEN "await" ELSE "thrown",
                              !.policy = policy, !.wrapped = wrapped,
                              !.maxRetries = maxRetries, !.baseDelay = baseDelay,
                              !.attempt = 1,
                              !.outstanding = IF 1 <= maxRetries THEN 1 ELSE 0]
    /\ UNCHANGED <<uiVars, catalog, appliers, judged, viewVars>>

\* the awaited operation settles: its HTTP exchange ended in `response`
RetryOpSettles(response, jitter) ==
    /\ retry.pc = "await"
    /\ LET next == AfterAttempt(OpOutcome(retry.wrapped, response),
                                retry.attempt, retry.maxRetries)
       IN retry' = [retry EXCEPT
              !.pc = next,
              !.attempts = Append(@, response),
              !.outstanding = @ - 1,
              !.sleeps = IF next = "sleep"
                         THEN Append(@, BackoffDelay(retry.baseDelay, retry.attempt, jitter))
                         ELSE @]
    /\ UNCHANGED <<uiVars, catalog, appliers, judged, viewVars>>

\* the backoff timer fires: attempt++, and the loop invokes the operation
\* again while attempt <= maxRetries (throw lastError after the loop)
RetryWakes ==
    /\ retry.pc = "sleep"
    /\ retry' = [retry EXCEPT
           !.attempt = @ + 1,
           !.pc = IF retry.attempt + 1 <= retry.maxRetries THEN "await" ELSE "thrown",
           !.outstanding = IF retry.attempt + 1 <= retry.maxRetries THEN @ + 1 ELSE @]
    /\ UNCHANGED <<uiVars, catalog, appliers, judged, viewVars>>

RetryNext ==
    \/ \E policy \in {"retryRequest", "retryOperation"}, wrapped \in BOOLEAN,
          maxRetries \in 1..MaxAttemptsBound, baseDelay \in BaseDelays :
              RetryCall(policy, wrapped, maxRetries, baseDelay)
    \/ \E response \in Responses, jitter \in Jitters : RetryOpSettles(response, jitter)
    \/ RetryWakes

\* The component constructed and idle, for the specifications of the parts
UIIdle == InitUI /\ concurrency = 1

InitRetry ==
    /\ UIIdle
    /\ retry = RetryIdle
    /\ judged = [pc |-> "off"]
    /\ ViewsOff
    /\ catalog = <<>>
    /\ appliers = <<>>

SpecRetry == InitRetry /\ [][RetryNext]_vars

----------------------------------------------------------------------------
\* ErrorHandler's classification of an error: getErrorCode, isRetryableError
\* and shouldRetry. An error object is its code, status, name and message;
\* "" and 0 stand for a property the error does not have.

HttpStatuses == {400, 401, 403, 404, 429, 500, 502, 503, 504}

\* Number.prototype.toString
StatusToString(n) ==
    CASE n = 400 -> "400" [] n = 401 -> "401" [] n = 403 -> "403"
      [] n = 404 -> "404" [] n = 429 -> "429" [] n = 500 -> "500"
      [] n = 502 -> "502" [] n = 503 -> "503" [] n = 504 -> "504"

\* String.prototype.includes (case-sensitive) of the words isRetryableError
\* looks for, over the messages explored. The status texts of HTTP responses
\* and the messages of fetch are capitalised.
MessageIncludes(message, word) ==
    CASE message = "Request timeout after 300 seconds" -> word = "timeout"
      [] message = "network timeout at: <url>" -> word \in {"timeout", "network"}
      [] OTHER -> FALSE

ErrorObject(code, status, name, message) ==
    [code |-> code, status |-> status, name |-> name, message |-> message]

\* NSFWTaggerClient.request: `throw new Error(`HTTP ${status}: ${statusText}`)`,
\* `throw new Error(`Request timeout after ...`)`, or the TypeError of fetch
HttpThrown == ErrorObject("", 0, "Error", "HTTP <status>: <statusText>")
TimeoutThrown == ErrorObject("", 0, "Error", "Request timeout after 300 seconds")
FetchThrown ==
    {ErrorObject("", 0, "TypeError", m) :
        m \in {"Failed to fetch", "NetworkError when attempting to fetch resource."}}

\* errors carrying the code of the failure (the codes ErrorHandler reads)
Coded(code) == ErrorObject(code, 0, "Error", "request failed")

\* The errors explored, each with what it is: its class and, for an HTTP
\* error, the status of the response
ErrorSamples ==
    {[class |-> "http", http |-> s, error |-> HttpThrown] : s \in HttpStatuses}
    \cup {[class |-> "http", http |-> s,
           error |-> ErrorObject("", s, "Error", "Request failed with status code")] :
             s \in HttpStatuses}
    \cup {[class |-> "timeout", http |-> 0, error |-> e] :
             e \in {TimeoutThrown, Coded("TIMEOUT"), Coded("ECONNABORTED"),
                    Coded("ETIMEDOUT"),
                    ErrorObject("", 0, "FetchError", "network timeout at: <url>")}}
    \cup {[class |-> "network", http |-> 0, error |-> e] :
             e \in FetchThrown \cup {Coded("NETWORK_ERROR"), Coded("CONNECTION_REFUSED"),
                                     Coded("ECONNRESET"), Coded("ENETUNREACH")}}
    \cup {[class |-> "validation", http |-> 0, error |-> e] :
             e \in {Coded("VALIDATION_ERROR"),
                    ErrorObject("", 0, "ValidationError", "Missing required field")}}

getErrorCode(error) ==
    IF error.code # "" THEN error.code
    ELSE IF error.status # 0 THEN StatusToString(error.status)
    ELSE IF error.name # "" THEN error.name
    ELSE "UNKNOWN_ERROR"

retryableCodes ==
    {"NETWORK_ERROR", "TIMEOUT", "CONNECTION_REFUSED", "ECONNRESET", "ENETUNREACH",
     "ECONNABORTED", "500", "502", "503", "504"}

isRetryableError(error) ==
    \/ getErrorCode(error) \in retryableCodes
    \/ MessageIncludes(error.message, "timeout")
    \/ MessageIncludes(error.message, "network")

nonRetryableCodes ==
    {"VALIDATION_ERROR", "AUTHENTICATION_ERROR", "PERMISSION_DENIED", "NOT_FOUND",
     "400", "401", "403", "404"}

shouldRetry(error) ==
    IF getErrorCode(error) \in nonRetryableCodes THEN FALSE
    ELSE isRetryableError(error)

\* errorHandler.shouldRetry(error) / errorHandler.isRetryableError(error) is called
ClassifyCall(fn, sample) ==
    /\ judged.pc = "idle"
    /\ judged' = [pc |-> "called", fn |-> fn, sample |-> sample]
    /\ UNCHANGED <<uiVars, retry, catalog, appliers, viewVars>>

\* and returns
ClassifyReturns ==
    /\ judged.pc = "called"
    /\ judged' = [pc |-> "returned", fn |-> judged.fn, sample |-> judged.sample,
                  answer |-> IF judged.fn = "shouldRetry"
                             THEN shouldRetry(judged.sample.error)
                             ELSE isRetryableError(judged.sample.error)]
    /\ UNCHANGED <<uiVars, retry, catalog, appliers, viewVars>>

ClassifyNext ==
    \/ \E fn \in {"shouldRetry", "isRetryableError"}, sample \in ErrorSamples :
          ClassifyCall(fn, sample)
    \/ ClassifyReturns

InitClassify ==
    /\ UIIdle
    /\ retry = [pc |-> "off"]
    /\ catalog = <<>>
    /\ appliers = <<>>
    /\ judged = [pc |-> "idle"]
    /\ ViewsOff

SpecClassify == InitClassify /\ [][ClassifyNext]_vars

----------------------------------------------------------------------------
\* The result applier (BatchProcessor.applyResultsToStash) and the catalog
\* operations it calls (StashClient.createTagIfNotExists, getTagByName,
\* addTagsToScene / addTagsToImage, createSceneMarker). The catalog executes
\* one query or mutation at a time; a call's answer is computed from the
\* catalog as it is when the call is executed.

MaxApplies == 2    \* applyResultsToStash calls explored
MaxTags == 2       \* tag names a result can hold
MaxMarkers == 1    \* markers a result can hold

TagNames == 1..MaxTags

\* result.tags and result.markers of a /process response; marker m is titled
\* m, at m seconds, tagged with the first tag name
ResultTags == {[k \in 1..n |-> k] : n \in 0..MaxTags}
ResultMarkers == {[m \in 1..n |-> [title |-> m, seconds |-> m, tags |-> <<1>>]] : n \in 0..MaxMarkers}
ApplyResults == {[tags |-> t, markers |-> m] : t \in ResultTags, m \in ResultMarkers}

\* The catalog: its tags (the id of a tag is its position), the tags attached
\* to each item, its scene markers, and the createTag mutations it was sent
\* for a name it already held
EmptyCatalog == [tags |-> <<>>, itemTags |-> [i \in ItemIds |-> {}], markers |-> <<>>,
                 dupCreates |-> 0]

\* findTag(name): the tag of that name, or null (0)
FindTag(cat, name) ==
    IF \E id \in DOMAIN cat.tags : cat.tags[id] = name
    THEN CHOOSE id \in DOMAIN cat.tags :
            cat.tags[id] = name /\ \A j \in DOMAIN cat.tags : cat.tags[j] = name => id <= j
    ELSE 0

\* getTagByName: the tag found, null when there is none and, from its catch,
\* null when the query failed
GetTagByName(cat, name, ok) == IF ok THEN FindTag(cat, name) ELSE 0

\* applyResultsToStash from the marker loop on: the createSceneMarker call of
\* marker mi (its tag lookups first), or the end of the function
\* (MutToMarker: the marker loop without its `type === 'scenes'` test)
MutToMarker(a, mi) ==
    IF mi <= Len(a.result.markers)
    THEN [a EXCEPT !.mi = mi, !.mt = 1, !.mTagIds = <<>>,
                   !.pc = IF Len(a.result.markers[mi].tags) > 0 THEN "mlookup" ELSE "mcreate"]
    ELSE [a EXCEPT !.pc = "done"]
ToMarker(a, mi) ==
    IF a.type = "scenes" /\ mi <= Len(a.result.markers)
    THEN [a EXCEPT !.mi = mi, !.mt = 1, !.mTagIds = <<>>,
                   !.pc = IF Len(a.result.markers[mi].tags) > 0 THEN "mlookup" ELSE "mcreate"]
    ELSE [a EXCEPT !.pc = "done"]

\* applyResultsToStash after createTagIfNotExists returned tagId (0 is null)
\* for result.tags[a.ti]: `if (tagId) tagIds.push(tagId)`, then the next tag
\* name, the bulk attachment when tagIds is not empty, or the markers
AfterTag(a, tagId) ==
    LET tagIds == IF tagId # 0 THEN Append(a.tagIds, tagId) ELSE a.tagIds
        b == [a EXCEPT !.tagIds = tagIds]
    IN IF a.ti < Len(a.result.tags) THEN [b EXCEPT !.ti = a.ti + 1, !.pc = "lookup"]
       ELSE IF Len(tagIds) > 0 THEN [b EXCEPT !.pc = "attach"]
       ELSE ToMarker(b, 1)

\* an applyResultsToStash call, up to its first await (writeFailures: the
\* catalog mutations of the call that have failed so far)
NewApply(item, type, result, prior, before) ==
    LET a == [item |-> item, type |-> type, result |-> result, pc |-> "start",
              ti |-> 1, tagIds |-> <<>>, mi |-> 0, mt |-> 0, mTagIds |-> <<>>,
              prior |-> prior, before |-> before, writeFailures |-> 0]
    IN IF Len(result.tags) > 0 THEN [a EXCEPT !.pc = "lookup"] ELSE ToMarker(a, 1)

Ended(a) == a.pc \in {"done", "failed"}

\* applyResultsToStash(itemId, type, result) is called. prior: the same
\* outcome was applied before, successfully, and no other call is under way;
\* before is then the catalog this call starts from.
ApplyStart(item, type, result) ==
    /\ Len(appliers) < MaxApplies
    /\ LET prior == /\ \A k \in DOMAIN appliers : Ended(appliers[k])
                    /\ \E k \in DOMAIN appliers :
                          /\ appliers[k].pc = "done"
                          /\ appliers[k].item = item
                          /\ appliers[k].type = type
                          /\ appliers[k].result = result
       IN appliers' = Append(appliers,
              NewApply(item, type, result, prior, IF prior THEN catalog ELSE EmptyCatalog))
    /\ UNCHANGED <<uiVars, retry, catalog, judged, viewVars>>

\* createTagIfNotExists: getTagByName returned; the id is returned when a tag
\* was found, the createTag mutation is sent otherwise
TagLookupReturns(k, ok) ==
    /\ k \in DOMAIN appliers
    /\ appliers[k].pc = "lookup"
    /\ LET a == appliers[k]
           existingTag == GetTagByName(catalog, a.result.tags[a.ti], ok)
       IN appliers' = [appliers EXCEPT ![k] =
              IF existingTag # 0 THEN AfterTag(a, existingTag) ELSE [a EXCEPT !.pc = "create"]]
    /\ UNCHANGED <<uiVars, retry, catalog, judged, viewVars>>

\* createTagIfNotExists: the createTag mutation is executed and answers with
\* the new tag, or fails, and the catch returns null
TagCreateReturns(k, ok) ==
    /\ k \in DOMAIN appliers
    /\ appliers[k].pc = "create"
    /\ LET a == appliers[k]
           name == a.result.tags[a.ti]
           dup == IF FindTag(catalog, name) # 0 THEN 1 ELSE 0
       IN IF ok
          THEN /\ catalog' = [catalog EXCEPT !.tags = Append(@, name),
                                             !.dupCreates = @ + dup]
               /\ appliers' = [appliers EXCEPT ![k] = AfterTag(a, Len(catalog.tags) + 1)]
          ELSE /\ catalog' = [catalog EXCEPT !.dupCreates = @ + dup]
               /\ appliers' = [appliers EXCEPT ![k] =
                      AfterTag([a EXCEPT !.writeFailures = @ + 1], 0)]
    /\ UNCHANGED <<uiVars, retry, judged, viewVars>>

\* addTagsToScene / addTagsToImage: the bulk update (mode ADD) is executed, or
\* fails and the error is rethrown out of applyResultsToStash
AttachReturns(k, ok) ==
    /\ k \in DOMAIN appliers
    /\ appliers[k].pc = "attach"
    /\ LET a == appliers[k]
       IN IF ok
          THEN /\ catalog' = [catalog EXCEPT !.itemTags[a.item] = @ \cup Range(a.tagIds)]
               /\ appliers' = [appliers EXCEPT ![k] = ToMarker(a, 1)]
          ELSE /\ appliers' = [appliers EXCEPT ![k].pc = "failed",
                                             ![k].writeFailures = @ + 1]
               /\ UNCHANGED catalog
    /\ UNCHANGED <<uiVars, retry, judged, viewVars>>

\* createSceneMarker: getTagByName returned for one of the marker's tag names;
\* a name that does not resolve is skipped
MarkerLookupReturns(k, ok) ==
    /\ k \in DOMAIN appliers
    /\ appliers[k].pc = "mlookup"
    /\ LET a == appliers[k]
           names == a.result.markers[a.mi].tags
           tag == GetTagByName(catalog, names[a.mt], ok)
           ids == IF tag # 0 THEN Append(a.mTagIds, tag) ELSE a.mTagIds
       IN appliers' = [appliers EXCEPT ![k] =
              IF a.mt < Len(names)
              THEN [a EXCEPT !.mTagIds = ids, !.mt = a.mt + 1]
              ELSE [a EXCEPT !.mTagIds = ids, !.pc = "mcreate"]]
    /\ UNCHANGED <<uiVars, retry, catalog, judged, viewVars>>

\* createSceneMarker: the mutation is executed and the marker created, or it
\* fails and the error is rethrown out of applyResultsToStash
MarkerCreateReturns(k, ok) ==
    /\ k \in DOMAIN appliers
    /\ appliers[k].pc = "mcreate"
    /\ LET a == appliers[k]
           m == a.result.markers[a.mi]
       IN IF ok
          THEN /\ catalog' = [catalog EXCEPT !.markers = Append(@,
                                 [scene |-> a.item, title |-> m.title,
                                  seconds |-> m.seconds, tag_ids |-> a.mTagIds])]
               /\ appliers' = [appliers EXCEPT ![k] = ToMarker(a, a.mi + 1)]
          ELSE /\ appliers' = [appliers EXCEPT ![k].pc = "failed",
                                             ![k].writeFailures = @ + 1]
               /\ UNCHANGED catalog
    /\ UNCHANGED <<uiVars, retry, judged, viewVars>>

ApplierIds == 1..MaxApplies

CatalogNext ==
    \/ \E item \in ItemIds, type \in {"scenes", "images"}, result \in ApplyResults :
          ApplyStart(item, type, result)
    \/ \E k \in ApplierIds, ok \in BOOLEAN : TagLookupReturns(k, ok)
    \/ \E k \in ApplierIds, ok \in BOOLEAN : TagCreateReturns(k, ok)
    \/ \E k \in ApplierIds, ok \in BOOLEAN : AttachReturns(k, ok)
    \/ \E k \in ApplierIds, ok \in BOOLEAN : MarkerLookupReturns(k, ok)
    \/ \E k \in ApplierIds, ok \in BOOLEAN : MarkerCreateReturns(k, ok)

\* the catalog before the plugin's calls: empty, or holding the first tag name
InitCatalog ==
    /\ UIIdle
    /\ retry = [pc |-> "off"]
    /\ judged = [pc |-> "off"]
    /\ ViewsOff
    /\ catalog \in {EmptyCatalog, [EmptyCatalog EXCEPT !.tags = <<1>>]}
    /\ appliers = <<>>

SpecCatalog == InitCatalog /\ [][CatalogNext]_vars

\* processItem: one item's pipeline, the remote call and then
\* applyResultsToStash with the result the container returned
NoResult == [tags |-> <<>>, markers |-> <<>>]

\* processItem up to its await of processSceneWithRetry / processImageWithRetry
ProcessItemCall(item, type) ==
    /\ appliers = <<>>
    /\ appliers' = <<[NewApply(item, type, NoResult, FALSE, EmptyCatalog) EXCEPT !.pc = "remote"]>>
    /\ UNCHANGED <<uiVars, retry, catalog, judged, viewVars>>

\* processItem: the remote call returned; `throw new Error(result.error)` when
\* result.success is false, applyResultsToStash(itemId, type, result.result)
\* otherwise
ItemRemoteReturns(k, success, result) ==
    /\ k \in DOMAIN appliers
    /\ appliers[k].pc = "remote"
    /\ appliers' = [appliers EXCEPT ![k] =
           IF success
           THEN NewApply(appliers[k].item, appliers[k].type, result, FALSE, EmptyCatalog)
           ELSE [appliers[k] EXCEPT !.pc = "rejected"]]
    /\ UNCHANGED <<uiVars, retry, catalog, judged, viewVars>>

\* what the promise of processItem settles as: fulfilled with {success: true}
\* when applyResultsToStash returned, rejected when the remote result was a
\* failure or applyResultsToStash threw
ProcessItemOutcome(a) ==
    IF a.pc = "done" THEN "ok"
    ELSE IF a.pc \in {"failed", "rejected"} THEN "rejected"
    ELSE "pending"

ItemNext ==
    \/ \E item \in ItemIds, type \in {"scenes", "images"} : ProcessItemCall(item, type)
    \/ \E k \in ApplierIds, success \in BOOLEAN, result \in ApplyResults :
          ItemRemoteReturns(k, success, result)
    \/ \E k \in ApplierIds, ok \in BOOLEAN : TagLookupReturns(k, ok)
    \/ \E k \in ApplierIds, ok \in BOOLEAN : TagCreateReturns(k, ok)
    \/ \E k \in ApplierIds, ok \in BOOLEAN : AttachReturns(k, ok)
    \/ \E k \in ApplierIds, ok \in BOOLEAN : MarkerLookupReturns(k, ok)
    \/ \E k \in ApplierIds, ok \in BOOLEAN : MarkerCreateReturns(k, ok)

SpecItem == InitCatalog /\ [][ItemNext]_vars

----------------------------------------------------------------------------
\* The Dashboard component: its status fields and quick actions (SpecDashboard)

\* at most this many loadStatus calls are awaiting a health check at once (the
\* 30 s poll starts a call whether or not the previous one has returned)
MaxStatusLoads == 2

StatusFields == {"plugin", "container", "lmstudio", "stash"}

\* Dashboard.constructor: state.status
InitStatus == [f \in StatusFields |-> "unknown"]

\* the value loadStatus stores for a health check's answer
HealthValue(ok) == IF ok THEN "healthy" ELSE "error"

\* renderQuickActions: allHealthy
allHealthy(status) == \A f \in DOMAIN status : status[f] = "healthy"

\* every quick-action button is rendered with disabled = !allHealthy
QuickActionsEnabled == allHealthy(dashboard.status)

DashboardFrame ==
    /\ UNCHANGED uiVars
    /\ UNCHANGED <<retry, catalog, appliers, judged, query, validation>>

\* loadStatus is called, by componentDidMount once initializeClients is over
\* and, after that call has returned, by the polling interval. It copies
\* state.status and starts the Stash health check; with no client
\* (initializeClients threw) the call on the null client throws at once, the
\* catch block stores plugin = 'error' and the copy is written back.
LoadStatusCall ==
    /\ dashboard.pc = "on"
    /\ Len(dashboard.calls) < MaxStatusLoads
    /\ dashboard.polling \/ (dashboard.calls = <<>> /\ ~dashboard.loaded)
    /\ IF dashboard.clients
       THEN dashboard' = [dashboard EXCEPT
                !.calls = Append(@, [pc |-> "stash", status |-> dashboard.status])]
       ELSE dashboard' = [dashboard EXCEPT
                !.status = [dashboard.status EXCEPT !.plugin = "error"],
                !.loaded = TRUE, !.polling = TRUE]
    /\ DashboardFrame

\* stashClient.healthCheck() returns (it never throws)
StashHealthReturns(k, connected) ==
    /\ dashboard.pc = "on"
    /\ k \in DOMAIN dashboard.calls
    /\ dashboard.calls[k].pc = "stash"
    /\ dashboard' = [dashboard EXCEPT
            !.calls[k].status.stash = HealthValue(connected),
            !.calls[k].pc = "container"]
    /\ DashboardFrame

\* nsfwClient.healthCheck() returns (it never throws)
ContainerHealthReturns(k, healthy) ==
    /\ dashboard.pc = "on"
    /\ k \in DOMAIN dashboard.calls
    /\ dashboard.calls[k].pc = "container"
    /\ dashboard' = [dashboard EXCEPT
            !.calls[k].status.container = HealthValue(healthy),
            !.calls[k].pc = "lmstudio"]
    /\ DashboardFrame

\* nsfwClient.testLMStudioConnection() returns (it never throws): the rest of
\* the try block stores the answer and plugin = 'ready', and setState
\* replaces state.status by the call's copy. componentDidMount goes on to
\* start the polling interval when its own call has returned.
LMStudioTestReturns(k, connected) ==
    /\ dashboard.pc = "on"
    /\ k \in DOMAIN dashboard.calls
    /\ dashboard.calls[k].pc = "lmstudio"
    /\ dashboard' = [dashboard EXCEPT
            !.status = [dashboard.calls[k].status EXCEPT
                            !.lmstudio = HealthValue(connected),
                            !.plugin = "ready"],
            !.calls = RemoveAt(@, k),
            !.loaded = TRUE, !.polling = TRUE]
    /\ DashboardFrame

StatusLoadIds == 1..MaxStatusLoads

DashboardNext ==
    \/ LoadStatusCall
    \/ \E k \in StatusLoadIds, connected \in BOOLEAN : StashHealthReturns(k, connected)
    \/ \E k \in StatusLoadIds, healthy \in BOOLEAN : ContainerHealthReturns(k, healthy)
    \/ \E k \in StatusLoadIds, connected \in BOOLEAN : LMStudioTestReturns(k, connected)

\* the Dashboard after its constructor and initializeClients, which has created
\* both clients or has thrown before creating them
InitDashboard ==
    /\ UIIdle
    /\ retry = [pc |-> "off"]
    /\ catalog = <<>>
    /\ appliers = <<>>
    /\ judged = [pc |-> "off"]
    /\ query = [pc |-> "off"]
    /\ validation = [pc |-> "off"]
    /\ \E c \in BOOLEAN :
          dashboard = [pc |-> "on", clients |-> c, status |-> InitStatus,
                       calls |-> <<>>, loaded |-> FALSE, polling |-> FALSE]

SpecDashboard == InitDashboard /\ [][DashboardNext]_vars

----------------------------------------------------------------------------
\* ErrorHandler.handleValidationError (SpecValidation)

\* the call stack holds at most this many frames of the method; the call that
\* would push one more throws a RangeError
MaxStackDepth == 4
\* validation errors passed in one call
MaxErrors == 3

ErrorMessages == {"required", "invalid"}
ErrorLists == UNION {[1..n -> ErrorMessages] : n \in 0..MaxErrors}
Contexts == {"", "settings"}

\* the bodies the class gives to the name handleValidationError, in the order
\* of the class body: the first builds a response and logs it, the second
\* starts by calling this.handleValidationError
HandleValidationErrorDefs == <<"builds", "calls_itself">>

\* a later method definition of a class body replaces an earlier one of the
\* same name, so the name is bound to the last
Resolve(defs) == defs[Len(defs)]

\* createErrorResponse(message, code, details, context), and the literal of the
\* first definition: the fields the callers read
ErrorResponse(code, errs, context) ==
    [success |-> FALSE, code |-> code, count |-> Len(errs), context |-> context]

ValidationFrame ==
    /\ UNCHANGED uiVars
    /\ UNCHANGED <<retry, catalog, appliers, judged, query, dashboard>>

\* a caller invokes errorHandler.handleValidationError(errors, context)
HandleValidationErrorCall(errs, context) ==
    /\ validation.pc = "idle"
    /\ validation' = [pc |-> "called", depth |-> 1, errors |-> errs,
                      context |-> context, response |-> "none"]
    /\ ValidationFrame

\* the innermost frame runs the body the name resolves to. The body that
\* builds the response returns it, and the frames below it (none, for that
\* body) return; the body that calls this.handleValidationError pushes a frame
\* with the same arguments, or throws the RangeError of a full stack, which no
\* frame catches.
HandleValidationErrorStep ==
    /\ validation.pc = "called"
    /\ IF Resolve(HandleValidationErrorDefs) = "builds"
       THEN validation' = [validation EXCEPT
                !.pc = "returned", !.depth = 0,
                !.response = ErrorResponse("VALIDATION_ERROR", validation.errors,
                                           validation.context)]
       ELSE IF validation.depth < MaxStackDepth
       THEN validation' = [validation EXCEPT !.depth = @ + 1]
       ELSE validation' = [validation EXCEPT !.pc = "thrown", !.depth = 0]
    /\ ValidationFrame

ValidationNext ==
    \/ \E errs \in ErrorLists, context \in Contexts : HandleValidationErrorCall(errs, context)
    \/ HandleValidationErrorStep

InitValidation ==
    /\ UIIdle
    /\ retry = [pc |-> "off"]
    /\ catalog = <<>>
    /\ appliers = <<>>
    /\ judged = [pc |-> "off"]
    /\ query = [pc |-> "off"]
    /\ dashboard = [pc |-> "off"]
    /\ validation = [pc |-> "idle"]

SpecValidation == InitValidation /\ [][ValidationNext]_vars

----------------------------------------------------------------------------
\* Claims about a run of the batch processor (Spec)

Count(x, seq) == Cardinality({k \in DOMAIN seq : seq[k] = x})

\* the ids of the batches run r has issued so far
Issued(r) ==
    IF runs[r].pc \in {"running", "done", "aborted"}
    THEN UNION {Range(runs[r].batches[b]) : b \in 1..runs[r].bi}
    ELSE {}

\* no run other than r has reset or fed the shared state
OnlyRun(r) == \A q \in DOMAIN runs : q # r => runs[q].pc \in {"validating", "invalid"}

\* C1: a run ends with progress.completed + progress.failed = progress.total:
\* in the step in which startProcessing's processItems loop ends (the run
\* becomes done), the counters add up to the total.
C1_RunEndsWithAllCounted ==
    [][\A r \in DOMAIN runs :
          (runs[r].pc = "running" /\ runs'[r].pc = "done")
              => progress'.completed + progress'.failed = progress'.total]_vars

\* C2: progress.completed + progress.failed <= progress.total in every
\* reachable state.
C2_CountersWithinTotal == progress.completed + progress.failed <= progress.total

\* C3: once cancelProcessing has been invoked during a run, that run starts no
\* further item: its processItems loop issues no further batch.
C3_NoStartAfterCancel ==
    [][\A r \in cancelledRuns : runs'[r].bi = runs[r].bi]_vars

\* C4: the items in flight when cancelProcessing was invoked are, once their
\* run has ended and the cancel call has returned, each exactly one entry of
\* results or errors, and the counters count them.
C4_InFlightAtCancelReported ==
    \A r \in DOMAIN runs :
        (runs[r].pc = "done" /\ cancels = 0 /\ OnlyRun(r))
            => /\ \A i \in inFlightAtCancel[r] : Count(i, results) + Count(i, errors) = 1
               /\ progress.completed >= Cardinality(inFlightAtCancel[r] \cap Range(results))
               /\ progress.failed >= Cardinality(inFlightAtCancel[r] \cap Range(errors))

\* C5: no item failure propagates out of processItems (no run is aborted by a
\* rejected item promise), every run that has started its loop goes on to
\* issue the /process request of every selected item whatever the outcomes of
\* the others, and a run that ended has issued all of them.
C5_FailureNeverStopsOthers ==
    \A r \in DOMAIN runs :
        /\ runs[r].pc # "aborted"
        /\ \A k \in DOMAIN runs[r].st : runs[r].st[k] # "rejected"
        /\ runs[r].pc = "done" =>
              /\ Issued(r) = Range(runs[r].sel)
              /\ \A i \in Range(runs[r].sel) :
                    reqCount[i] >= Cardinality({q \in DOMAIN runs : i \in Issued(q)})

\* C5 happens: a run nobody cancelled ended with its first item failed and an
\* item of a later batch processed and successful.
C5_Witness ==
    \E r \in DOMAIN runs :
        /\ runs[r].pc = "done"
        /\ cancelledRuns = {}
        /\ OnlyRun(r)
        /\ Len(runs[r].batches) >= 2
        /\ runs[r].batches[1][1] \in Range(errors)
        /\ runs[r].batches[2][1] \in Range(results)

----------------------------------------------------------------------------
\* Claims about the retry policy (SpecRetry)

RetryEnded == retry.pc \in {"returned", "thrown"}

\* C6: an item whose /process request fails with HTTP 500 on every attempt
\* gets exactly maxRetries requests from processSceneWithRetry /
\* processImageWithRetry (called by processItem with the default maxRetries)
\* before it is recorded as failed.
C6_MaxRetriesRequestsOn500 ==
    (/\ RetryEnded
     /\ retry.policy = "retryRequest"
     /\ retry.wrapped
     /\ retry.maxRetries = DefaultMaxRetries
     /\ \A k \in DOMAIN retry.attempts : retry.attempts[k] = "500")
        => Len(retry.attempts) = retry.maxRetries

\* C7: the operation is invoked at least once and at most maxRetries times, one
\* invocation at a time, and never again after an attempt that succeeded.
C7_RetryInvocations ==
    /\ retry.outstanding \in {0, 1}
    /\ Len(retry.attempts) + retry.outstanding <= retry.maxRetries
    /\ RetryEnded => Len(retry.attempts) >= 1
    /\ \A k \in DOMAIN retry.attempts :
          OpOutcome(retry.wrapped, retry.attempts[k]) = "fulfilled"
              => (k = Len(retry.attempts) /\ retry.pc = "returned" /\ retry.outstanding = 0)

\* C7 happens: with attempts to spare, the call returned at the first attempt
\* that succeeded, after one that failed.
C7_Witness ==
    /\ retry.pc = "returned"
    /\ ~retry.wrapped
    /\ retry.maxRetries = 3
    /\ retry.attempts = <<"500", "200">>

\* C8: an attempt that fails with a non-retryable error (HTTP 400/401/403/404)
\* ends the call at once: the error is thrown, no sleep and no further attempt
\* follow it.
C8_NonRetryablePropagates ==
    \A k \in DOMAIN retry.attempts :
        (OpOutcome(retry.wrapped, retry.attempts[k]) = "rejected"
            /\ retry.attempts[k] \in NonRetryable)
        => (k = Len(retry.attempts) /\ retry.pc = "thrown")

----------------------------------------------------------------------------
\* Claims about the catalog writes (SpecCatalog)

NoDuplicates(seq) == \A a, b \in DOMAIN seq : a # b => seq[a] # seq[b]

\* C9: resolve-or-create is idempotent: no createTag mutation reaches the
\* catalog for a name it already holds a tag of, and the catalog never holds
\* two tags of one name.
C9_ResolveOrCreateIdempotent ==
    /\ catalog.dupCreates = 0
    /\ NoDuplicates(catalog.tags)

\* C10: when an outcome that was applied successfully is applied again, the
\* second application leaves the catalog's tags and markers as it found them.
C10_ApplyTwiceSameAsOnce ==
    \A k \in DOMAIN appliers :
        (appliers[k].prior /\ appliers[k].pc = "done")
            => /\ catalog.tags = appliers[k].before.tags
               /\ catalog.markers = appliers[k].before.markers

FinishedWhileUnstarted(r) ==
    /\ runs[r].pc = "running"
    /\ r \notin cancelledRuns
    /\ runs[r].bi < Len(runs[r].batches)
    /\ \E k \in DOMAIN runs[r].st : runs[r].st[k] \in Settled

\* C12: work-stealing: whenever an in-flight item finishes while unstarted
\* items remain and the run is not cancelled, the next unstarted item can start
\* at once, without waiting for the other in-flight items
C12_NextStartsWhenOneFinishes ==
    \A r \in DOMAIN runs :
        FinishedWhileUnstarted(r) =>
            ENABLED (BatchSettles(r) /\ runs'[r].bi = runs[r].bi + 1)

\* C13: each selected item id yields exactly one outcome per run: once the
\* runs have ended, a selected id is exactly one entry of results or errors
\* (never in both, never twice) and an id that was not selected is in neither
C13_OneOutcomePerSelectedId ==
    (/\ \A r \in DOMAIN runs : runs[r].pc \in {"done", "invalid"}
     /\ \E r \in DOMAIN runs : runs[r].pc = "done")
        => \A i \in DOMAIN reqCount :
              Count(i, results) + Count(i, errors)
                  = IF i \in Range(selectedItems) THEN 1 ELSE 0

\* C14: the run is reported as finished (state.processing is false) only when
\* no selected item of a run is still in flight
C14_FinishedOnlyWhenNothingInFlight ==
    ~processing => \A r \in DOMAIN runs : InFlightIds(r) = {}

----------------------------------------------------------------------------
\* applyResultsToStash threw out of its marker loop
FailedAtMarker(a) == a.pc = "failed" /\ a.mi >= 1

\* C15: when the bulk tag attachment of an item succeeded and the marker step
\* then fails, the tags stay attached to the item and the failure is reported
\* against the marker step only: the item's outcome is not a failure of the
\* whole item
C15_MarkerFailureKeepsTagsAndOutcome ==
    \A k \in DOMAIN appliers :
        (FailedAtMarker(appliers[k]) /\ Len(appliers[k].tagIds) > 0)
            => /\ Range(appliers[k].tagIds) \subseteq catalog.itemTags[appliers[k].item]
               /\ ItemPromise(ProcessItemOutcome(appliers[k])) # "failed"

\* C16: a failing catalog write of the result applier is retried on its own
\* before the item is recorded as failed: a call does not fail on the single
\* failure of one catalog write
C16_SingleWriteFailureDoesNotFailItem ==
    \A k \in DOMAIN appliers :
        appliers[k].pc = "failed" => appliers[k].writeFailures >= 2

\* the place of a step in the order of one item's pipeline
StepRank(pc) ==
    CASE pc = "remote" -> 0
      [] pc \in {"lookup", "create"} -> 1
      [] pc = "attach" -> 2
      [] pc \in {"mlookup", "mcreate"} -> 3
      [] OTHER -> 4

----------------------------------------------------------------------------
\* the errors the retry policy is to retry, and those that are terminal
RetryableClass(sample) ==
    \/ sample.class \in {"network", "timeout"}
    \/ sample.class = "http" /\ (sample.http >= 500 \/ sample.http = 429)
TerminalClass(sample) ==
    \/ sample.class = "http" /\ sample.http \in {400, 401, 403, 404}
    \/ sample.class = "validation"

\* C17: shouldRetry returns true for every network error, timeout, HTTP 5xx
\* and HTTP 429 error, and false for every HTTP 400/401/403/404 and validation
\* error, the errors thrown by the remote client (message only) included
C17_ShouldRetryClassifies ==
    (judged.pc = "returned" /\ judged.fn = "shouldRetry")
        => /\ RetryableClass(judged.sample) => judged.answer = TRUE
           /\ TerminalClass(judged.sample) => judged.answer = FALSE

\* C18: the delay slept after failed attempt k < maxRetries is
\* min(maxDelay, baseDelay * 2^(k-1)) plus a jitter in [0, 1000 ms): no
\* backoff sleep exceeds maxDelay + 1000 ms, and no sleep follows the final
\* attempt
C18_BackoffDelayCapped ==
    /\ \A k \in DOMAIN retry.sleeps :
          LET jitter == retry.sleeps[k]
                          - Min(DefaultMaxDelay, retry.baseDelay * Pow2(k - 1))
          IN /\ 0 <= jitter
             /\ jitter < JitterSpan
             /\ retry.sleeps[k] <= DefaultMaxDelay + JitterSpan
    /\ Len(retry.sleeps) <= Len(retry.attempts)
    /\ Len(retry.sleeps) < retry.maxRetries

----------------------------------------------------------------------------
\* C21: an item recorded as successful has every tag name of its remote
\* result attached to it in the catalog: no tag that could not be resolved or
\* created is left out of an item reported as a success
C21_SuccessHasEveryTag ==
    \A k \in DOMAIN appliers :
        ItemPromise(ProcessItemOutcome(appliers[k])) = "ok"
            => \A t \in DOMAIN appliers[k].result.tags :
                  \E id \in catalog.itemTags[appliers[k].item] :
                      catalog.tags[id] = appliers[k].result.tags[t]

----------------------------------------------------------------------------
\* C22: while a run is active, reloading the item list (the calls and returns
\* of loadItems) leaves progress, results and errors unchanged
C22_ReloadLeavesRunState ==
    [][((\E r \in DOMAIN runs : runs[r].pc = "running") /\ loads' # loads)
          => (progress' = progress /\ results' = results /\ errors' = errors)]_vars

\* the startProcessing calls that are in their processItems loop
ActiveRuns == {r \in DOMAIN runs : runs[r].pc = "running"}

\* C23: at most one batch run is active at a time: no second processItems
\* loop runs while an earlier loop still has unfinished items
C23_SingleActiveRun == Cardinality(ActiveRuns) <= 1

\* C24: progress.completed is the number of entries of results and
\* progress.failed the number of entries of errors, in every reachable state
C24_CountersMatchLists ==
    /\ progress.completed = Len(results)
    /\ progress.failed = Len(errors)

\* run r has finished, or has been cancelled and the cancel call has returned
RunOver(r) ==
    \/ runs[r].pc \in {"done", "invalid"}
    \/ r \in cancelledRuns /\ cancels = 0

\* C28: at most one interval is scheduled at any time, and after every started
\* run has finished or been cancelled no interval remains scheduled
C28_TimerOnlyWhileRunning ==
    /\ Cardinality(intervals) <= 1
    /\ (runs # <<>> /\ \A r \in DOMAIN runs : RunOver(r))
          => (intervals = {} /\ processingInterval = 0)

\* C25: when the cancel request to the container fails, cancelProcessing
\* leaves processing and progress unchanged (stated for a container that
\* fails every cancel request: every return of a cancel call is a failure)
C25_FailedCancelLeavesState ==
    [][cancels' < cancels => (processing' = processing /\ progress' = progress)]_vars

\* C26: the selection stays consistent with the displayed list: every id of
\* selectedItems is the id of an item of items, and allSelected is true
\* exactly when the list is not empty and every displayed item is selected
C26_SelectionConsistent ==
    /\ Range(selectedItems) \subseteq Range(items)
    /\ allSelected <=> (Len(items) > 0 /\ Range(items) \subseteq Range(selectedItems))

\* C27: once all pending loads have returned, the displayed items are those
\* of the most recently chosen mode and type and the loading flag is off,
\* whatever the order in which the responses arrived
C27_LatestFilterShown ==
    query.pending = <<>> => (query.shown = query.filter /\ ~loading)

\* C29: a Dashboard status field is healthy, error or warning (unknown only
\* before the first status load), and when a status load has stored healthy
\* for Stash, the container and LMStudio, every status field is healthy, so
\* the quick-action buttons are enabled.
C29_StatusHealthyEnablesActions ==
    dashboard.pc = "on" =>
        /\ \A f \in StatusFields :
              dashboard.status[f] \in
                  {"healthy", "error", "warning"} \cup
                  (IF dashboard.loaded THEN {} ELSE {"unknown"})
        /\ (/\ dashboard.loaded
            /\ dashboard.status.stash = "healthy"
            /\ dashboard.status.container = "healthy"
            /\ dashboard.status.lmstudio = "healthy") => QuickActionsEnabled

\* C30: handleValidationError(errors, context) ends by returning, never by
\* throwing, and the response it returns has success = false and code
\* 'VALIDATION_ERROR'.
C30_ValidationErrorReturns ==
    validation.pc \in {"called", "returned", "thrown"} =>
        /\ validation.pc # "thrown"
        /\ validation.pc = "returned" =>
              /\ validation.response.success = FALSE
              /\ validation.response.code = "VALIDATION_ERROR"

====
